---------------------------- MODULE Spec2Model ----------------------------
(***************************************************************************)
(* A model of djangocms_ranked_search: the text normalizer (utils.py), the *)
(* weighted query form (forms.py), the in-memory reranker with its memo    *)
(* caches (views.py), the title_norm of the index (search_indexes.py) and  *)
(* the Whoosh schema builder (whoosh_backend.py).                          *)
(*                                                                         *)
(* Text is a sequence of Unicode code points.  The characters used are     *)
(*     9 TAB   32 SPACE   34 "   43 +   45 -   48 0   49 1   53 5          *)
(*    78 N    94 ^    95 _   110 n   115 s   209 N-tilde   241 n-tilde     *)
(* and the private use area from 57344 (0xE000) on.                        *)
(***************************************************************************)
EXTENDS Integers, Sequences, FiniteSets, TLC

VARIABLES
    \* ---- utils.normalize_text ----
    nphase,       \* "off" | "input" | "once" | "twice"
    profile,      \* settings.RANKED_SEARCH_FOLDING_PROFILE: [default, es] of
                  \*   [preserve : set of chars, replace : ordered rule list]
    keep_enye,    \* settings.RANKED_SEARCH_KEEP_ENYE: "None" | "True" | "False"
    base_lang,    \* the base_lang argument of normalize_text
    ntext,        \* the argument s of normalize_text
    nout,         \* normalize_text(s, base_lang)
    nout2         \* normalize_text(normalize_text(s, base_lang), base_lang)

nvars == <<nphase, profile, keep_enye, base_lang, ntext, nout, nout2>>

VARIABLES
    \* ---- forms.CMSWeightedSearchForm.search ----
    fphase,       \* "off" | "input" | "done"
    fvalid,       \* self.is_valid()
    fq,           \* self.cleaned_data.get("q") (empty when absent)
    norm_flag,    \* settings.RANKED_SEARCH_USE_NORMALIZED_FIELDS
    engine,       \* HAYSTACK_CONNECTIONS["default"]["ENGINE"]: "whoosh" | "xapian" | "unset"
    foutcome,     \* "none" | "no_query" (no_query_found()) | "filter"
    fq_raw,       \* q_raw = _q(user_q) of the plan (empty when none was built)
    fplan         \* the SQ tree passed to searchqueryset.filter

fvars == <<fphase, fvalid, fq, norm_flag, engine, foutcome, fq_raw, fplan>>

VARIABLES
    \* ---- whoosh_backend.WhooshLangBackend.build_schema ----
    sphase,       \* "off" | "input" | "done"
    sfields,      \* fields.items(): the field classes, in dict order
    sraised,      \* SearchBackendError was raised
    scontent,     \* the returned content_field_name
    sschema       \* the schema_fields dict, in insertion order

svars == <<sphase, sfields, sraised, scontent, sschema>>

VARIABLES
    \* ---- views.CMSWeightedSearchView.paginate_queryset ----
    rphase,       \* "off" | "input" | "done"
    rerank_pool,  \* settings.RERANK_POOL: <<>> when not set, else <<n>>
    rerank_ceiling, \* settings.RERANK_CEILING: <<>> when not set, else <<n>>
    stop_extra,   \* STOP_EXTRA, the stopword overrides read at import
    page_size,    \* the page_size argument
    raw_q,        \* request.GET.get("q", "")
    page_param,   \* request.GET.get("page"): <<>> when absent or empty
    hits,         \* what the backend holds for the query, in backend order
    limits_ok,    \* queryset.query.set_limits does not raise
    pool_req,     \* the pool passed to set_limits(0, pool)
    items,        \* list(queryset) after items.sort(key=key)
    page_number,  \* page.number of the returned page
    object_list,  \* page.object_list of the returned page
    has_other,    \* paginator.num_pages > 1
    rraised       \* an exception left paginate_queryset

rvars == <<rphase, rerank_pool, rerank_ceiling, stop_extra, page_size, raw_q,
           page_param, hits, limits_ok, pool_req, items, page_number,
           object_list, has_other, rraised>>

VARIABLES
    \* ---- the settings views.py reads and its module-level state ----
    rerank_language,        \* settings.RERANK_LANGUAGE: <<>> when not set, else <<str>>
    ranked_search_language, \* settings.RANKED_SEARCH_LANGUAGE, likewise
    haystack_language,      \* settings.HAYSTACK_LANGUAGE, likewise
    language_code,          \* settings.LANGUAGE_CODE, likewise
    stopwords_add,          \* settings.RERANK_STOPWORDS_ADD
    stopwords_remove,       \* settings.RERANK_STOPWORDS_REMOVE
    norm_cache,             \* the lru_cache of _normalize: argument -> result
    tokens_cache,           \* the lru_cache of _tokens: argument -> result
    item_keys               \* key(res) of the last sort, in backend order

pvars == <<rerank_language, ranked_search_language, haystack_language,
           language_code, stopwords_add, stopwords_remove, norm_cache,
           tokens_cache, item_keys>>

VARIABLES
    \* ---- search_indexes.prepare_fields against views._normalize ----
    lphase,       \* "off" | "input" | "indexed" | "done"
    ltitle,       \* prepared_data["title"]
    ltitle_norm,  \* prepared_data["title_norm"]
    lview_norm    \* _normalize(title) in the view

lvars == <<lphase, ltitle, ltitle_norm, lview_norm>>

VARIABLES
    \* ---- views._jaccard and the similarity of the sort key ----
    jphase,       \* "off" | "input" | "called" | "done"
    jquery,       \* the query argument
    jtitle,       \* the title argument
    jout,         \* _jaccard(query, title) as [num, den]
    jout2,        \* _jaccard(title, query), or <<>>
    jkey          \* key(res) for a hit titled title under the query, or <<>>

jvars == <<jphase, jquery, jtitle, jout, jout2, jkey>>

vars == <<nvars, fvars, svars, rvars, pvars, lvars, jvars>>

---------------------------------------------------------------------------
(* Python str primitives on code point sequences                           *)

\* str.lower(), per character
LowerChar(c) ==
    CASE c \in 65..90 -> c + 32
      [] c = 209 -> 241
      [] OTHER -> c

Lower(s) == [i \in 1..Len(s) |-> LowerChar(s[i])]

\* str.replace(old, new) for a non-empty old: non-overlapping occurrences,
\* scanned left to right
RECURSIVE StrReplace(_, _, _)
StrReplace(t, old, new) ==
    IF Len(t) < Len(old) THEN t
    ELSE IF SubSeq(t, 1, Len(old)) = old
         THEN new \o StrReplace(SubSeq(t, Len(old) + 1, Len(t)), old, new)
         ELSE <<t[1]>> \o StrReplace(Tail(t), old, new)

\* c in s
Occurs(c, s) == \E i \in 1..Len(s) : s[i] = c

\* sub in s (substring test)
Contains(s, sub) ==
    \E i \in 1..(Len(s) - Len(sub) + 1) : SubSeq(s, i, i + Len(sub) - 1) = sub

\* sorted(set of characters): ascending code points
RECURSIVE SortedChars(_)
SortedChars(S) ==
    IF S = {} THEN <<>>
    ELSE LET m == CHOOSE x \in S : \A y \in S : x <= y
         IN <<m>> \o SortedChars(S \ {m})

---------------------------------------------------------------------------
(* utils.py                                                                *)

\* the empty profile entry: prof.get(key, {}) or {}
NoProfile == [preserve |-> {}, replace |-> <<>>]

\* dict.update on an insertion-ordered dict kept as a list of [src, dst]:
\* an existing key keeps its position and takes the new value
RECURSIVE DictUpdate(_, _)
DictUpdate(d, more) ==
    IF more = <<>> THEN d
    ELSE LET r == Head(more)
             hit == {i \in 1..Len(d) : d[i].src = r.src}
             d2 == IF hit = {} THEN Append(d, r)
                   ELSE [i \in 1..Len(d) |-> IF i \in hit THEN r ELSE d[i]]
         IN DictUpdate(d2, Tail(more))

\* _merge_profile(base_lang) -> (preserve, replace)
MergeProfile(prof, enye, lang) ==
    LET default == prof.default
        langp == IF lang \in DOMAIN prof THEN prof[lang] ELSE NoProfile
        preserve == default.preserve \cup langp.preserve
        replace == DictUpdate(default.replace, langp.replace)
        preserve2 == IF enye = "True" THEN preserve \cup {241, 209}
                     ELSE IF enye = "False" THEN preserve \ {241, 209}
                     ELSE preserve
    IN [preserve |-> preserve2, replace |-> replace]

\* the loop "for src, dst in replace.items(): if src: text = text.replace(...)"
RECURSIVE ApplyReplacements(_, _)
ApplyReplacements(text, rules) ==
    IF rules = <<>> THEN text
    ELSE LET r == Head(rules)
             t2 == IF r.src # <<>>
                   THEN StrReplace(text, Lower(r.src), Lower(r.dst))
                   ELSE text
         IN ApplyReplacements(t2, Tail(rules))

\* first code point of the private use area: chr(0xE000 + idx)
PlaceholderBase == 57344

\* placeholders = {ch.lower(): chr(0xE000 + idx)
\*                 for idx, ch in enumerate(sorted(preserve))}
\* as the ordered list of [ch, ph] the dict iterates over
RECURSIVE PlaceholderDict(_, _, _)
PlaceholderDict(d, chars, idx) ==
    IF chars = <<>> THEN d
    ELSE LET e == [ch |-> LowerChar(Head(chars)), ph |-> PlaceholderBase + idx]
             hit == {i \in 1..Len(d) : d[i].ch = e.ch}
             d2 == IF hit = {} THEN Append(d, e)
                   ELSE [i \in 1..Len(d) |-> IF i \in hit THEN e ELSE d[i]]
         IN PlaceholderDict(d2, Tail(chars), idx + 1)

\* the placeholder keys taken as written in the preserve set, not lower-cased
PlaceholdersAsWritten(preserve) ==
    LET chars == SortedChars(preserve)
    IN [i \in 1..Len(chars) |-> [ch |-> chars[i], ph |-> PlaceholderBase + (i - 1)]]

Placeholders(preserve) == PlaceholderDict(<<>>, SortedChars(preserve), 0)

\* for ch, ph in placeholders.items(): text = text.replace(ch, ph)
RECURSIVE Protect(_, _)
Protect(text, phs) ==
    IF phs = <<>> THEN text
    ELSE Protect(StrReplace(text, <<Head(phs).ch>>, <<Head(phs).ph>>), Tail(phs))

\* for ch, ph in placeholders.items(): text = text.replace(ph, ch)
RECURSIVE Restore(_, _)
Restore(text, phs) ==
    IF phs = <<>> THEN text
    ELSE Restore(StrReplace(text, <<Head(phs).ph>>, <<Head(phs).ch>>), Tail(phs))

\* NFD of one character with its combining marks dropped, then NFC
FoldChar(c) ==
    CASE c = 241 -> 110
      [] c = 209 -> 78
      [] OTHER -> c

\* one character less faithful: only the first accented character is folded
StripMarksFirstOnly(text) ==
    LET acc == {i \in 1..Len(text) : FoldChar(text[i]) # text[i]}
    IN IF acc = {} THEN text
       ELSE LET k == CHOOSE i \in acc : \A j \in acc : i <= j
            IN [i \in 1..Len(text) |-> IF i = k THEN FoldChar(text[i]) ELSE text[i]]

\* unicodedata.normalize("NFD"), drop combining marks, normalize("NFC")
StripMarks(text) == [i \in 1..Len(text) |-> FoldChar(text[i])]

\* the tail of normalize_text after the replacements: protect, fold, restore
FoldPreserving(text, preserve) ==
    LET phs == Placeholders(preserve)
    IN Restore(StripMarks(Protect(text, phs)), phs)

\* normalize_text(s, base_lang) under the given settings
NormalizeText(s, prof, enye, lang) ==
    IF s = <<>> THEN <<>>
    ELSE LET p == MergeProfile(prof, enye, lang)
         IN FoldPreserving(ApplyReplacements(Lower(s), p.replace), p.preserve)

---------------------------------------------------------------------------
(* Components at rest: a specification of one component leaves the others  *)
(* in these states                                                         *)

NoSettingsProfile == [default |-> NoProfile, es |-> NoProfile]

FormOff ==
    /\ fphase = "off"
    /\ fvalid = FALSE
    /\ fq = <<>>
    /\ norm_flag = FALSE
    /\ engine = "unset"
    /\ foutcome = "none"
    /\ fq_raw = <<>>
    /\ fplan = <<>>

SchemaOff ==
    /\ sphase = "off"
    /\ sfields = <<>>
    /\ sraised = FALSE
    /\ scontent = ""
    /\ sschema = <<>>

RankOff ==
    /\ rphase = "off"
    /\ rerank_pool = <<>>
    /\ rerank_ceiling = <<>>
    /\ stop_extra = {}
    /\ page_size = 1
    /\ raw_q = <<>>
    /\ page_param = <<>>
    /\ hits = <<>>
    /\ limits_ok = TRUE
    /\ pool_req = 0
    /\ items = <<>>
    /\ page_number = 0
    /\ object_list = <<>>
    /\ has_other = FALSE
    /\ rraised = FALSE

\* the folding settings when RANKED_SEARCH_FOLDING_PROFILE is not set
SettingsOff ==
    /\ profile = NoSettingsProfile
    /\ keep_enye = "None"
    /\ base_lang = "en"

\* the normalizer is not called on its own; the folding settings are those
\* of the running component
NormOff ==
    /\ nphase = "off"
    /\ ntext = <<>>
    /\ nout = <<>>
    /\ nout2 = <<>>

\* an lru_cache with no entry; a cache is the set of its [key, val] entries
EmptyCache == {}

\* no language or stopword setting is set and views.py holds nothing
ProcessOff ==
    /\ rerank_language = <<>>
    /\ ranked_search_language = <<>>
    /\ haystack_language = <<>>
    /\ language_code = <<>>
    /\ stopwords_add = {}
    /\ stopwords_remove = {}
    /\ norm_cache = EmptyCache
    /\ tokens_cache = EmptyCache
    /\ item_keys = <<>>

LangOff ==
    /\ lphase = "off"
    /\ ltitle = <<>>
    /\ ltitle_norm = <<>>
    /\ lview_norm = <<>>

JaccardOff ==
    /\ jphase = "off"
    /\ jquery = <<>>
    /\ jtitle = <<>>
    /\ jout = <<>>
    /\ jout2 = <<>>
    /\ jkey = <<>>

---------------------------------------------------------------------------
(* Inputs of the normalizer                                                *)

MaxLen == 2

NormChars == {78, 110, 115, 209, 241}

Strings(chars, n) == UNION {[1..k -> chars] : k \in 0..n}

\* replace rules: sources N and n-tilde, destinations "", "s", N-tilde, "nn"
RuleSources == {<<78>>, <<241>>}
RuleDests == {<<>>, <<115>>, <<209>>, <<110, 110>>}
Rules == [src : RuleSources, dst : RuleDests]
RuleMaps == {<<>>} \cup {<<r>> : r \in Rules}

Profiles ==
    [default : [preserve : {{}, {241}}, replace : RuleMaps],
     es : [preserve : {{}, {209}}, replace : RuleMaps]]

NormInit ==
    /\ nphase = "input"
    /\ profile \in Profiles
    /\ keep_enye \in {"None", "True", "False"}
    /\ base_lang \in {"en", "es"}
    /\ ntext \in Strings(NormChars, MaxLen)
    /\ nout = <<>>
    /\ nout2 = <<>>
    /\ FormOff
    /\ SchemaOff
    /\ RankOff
    /\ ProcessOff
    /\ LangOff
    /\ JaccardOff

\* normalize_text(s, base_lang)
Normalize ==
    /\ nphase = "input"
    /\ nout' = NormalizeText(ntext, profile, keep_enye, base_lang)
    /\ nphase' = "once"
    /\ UNCHANGED <<profile, keep_enye, base_lang, ntext, nout2>>
    /\ UNCHANGED <<fvars, svars, rvars, pvars, lvars, jvars>>

\* normalize_text applied to its own result
Renormalize ==
    /\ nphase = "once"
    /\ nout2' = NormalizeText(nout, profile, keep_enye, base_lang)
    /\ nphase' = "twice"
    /\ UNCHANGED <<profile, keep_enye, base_lang, ntext, nout>>
    /\ UNCHANGED <<fvars, svars, rvars, pvars, lvars, jvars>>

NormNext == Normalize \/ Renormalize

SpecNorm == NormInit /\ [][NormNext]_vars

\* the effective profile of the current settings
Effective == MergeProfile(profile, keep_enye, base_lang)

---------------------------------------------------------------------------
(* Properties of normalize_text                                            *)

\* the lower-cased sources of the effective replace rules that are applied
ActiveSources == {Lower(Effective.replace[i].src) : i \in 1..Len(Effective.replace)} \ {<<>>}

\* number of occurrences of c in s
Count(c, s) == Cardinality({i \in 1..Len(s) : s[i] = c})

\* C5 as stated: normalize_text is idempotent for every input and every
\* folding profile: normalizing the result again returns the result.
C5_IdempotentAnyProfile == nphase = "twice" => nout2 = nout

\* C5 amended: normalize_text is idempotent on every input whose normalized
\* form contains no lower-cased source of an effective replace rule (in
\* particular under every profile with an empty replace map, whatever the
\* preserve set).
C5_IdempotentNoSourceLeft ==
    (nphase = "twice" /\ \A src \in ActiveSources : ~Contains(nout, src))
        => nout2 = nout

\* C5 witness: a rule rewrote the input, a preserved character was kept, an
\* accent was folded, no source is left, and the second pass changed nothing.
C5_Witness ==
    /\ nphase = "twice"
    /\ \E src \in ActiveSources : Contains(Lower(ntext), src)
    /\ \A src \in ActiveSources : ~Contains(nout, src)
    /\ Effective.preserve # {}
    /\ nout # Lower(ntext)
    /\ nout # <<>>
    /\ nout2 = nout

\* C6 as stated: every character of the effective preserve set that occurs
\* in the input occurs unchanged in the output (not folded, not
\* case-changed, not rewritten by a replace rule).
C6_PreservedUnchanged ==
    nphase # "input" =>
        \A c \in Effective.preserve : Occurs(c, ntext) => Occurs(c, nout)

\* C6 amended: every character c of the effective preserve set that occurs
\* in the input and whose lower-case form is part of no replace-rule source
\* occurs in the output lower-cased with its diacritic intact, at least as
\* often as c and its other-case form occur in the input; a lower-case c is
\* therefore unchanged.
C6_PreservedLowerCased ==
    nphase # "input" =>
        \A c \in Effective.preserve :
            (/\ Occurs(c, ntext)
             /\ \A src \in ActiveSources : ~Occurs(LowerChar(c), src))
            => /\ Occurs(LowerChar(c), nout)
               /\ Count(LowerChar(c), nout) >= Count(LowerChar(c), Lower(ntext))

\* C6 witness: a preserved accented character of the input survived while a
\* replace rule rewrote another part of the input.
C6_Witness ==
    /\ nphase = "once"
    /\ 241 \in Effective.preserve
    /\ Occurs(241, ntext)
    /\ \A src \in ActiveSources : ~Occurs(241, src)
    /\ \E src \in ActiveSources : Contains(Lower(ntext), src)
    /\ Occurs(241, nout)

\* every character of text rewritten at most once: a character that is the
\* lower-cased source of a rule becomes that rule's lower-cased destination,
\* every other character is kept
RECURSIVE RewriteOnce(_, _)
RewriteOnce(text, rules) ==
    IF text = <<>> THEN <<>>
    ELSE LET hit == {i \in 1..Len(rules) : Lower(rules[i].src) = <<Head(text)>>}
         IN (IF hit = {} THEN <<Head(text)>>
             ELSE Lower(rules[CHOOSE i \in hit : \A j \in hit : i <= j].dst))
            \o RewriteOnce(Tail(text), rules)

\* C7: every occurrence of a rule's source in the lower-cased input is
\* mapped to the rule's lower-cased destination before diacritics are
\* stripped, a rule's output is not rewritten by another rule, and the
\* result does not depend on the order of the rules.
C7_EachSourceMappedOnce ==
    (nphase # "input" /\ ntext # <<>>) =>
        nout = FoldPreserving(RewriteOnce(Lower(ntext), Effective.replace),
                              Effective.preserve)

---------------------------------------------------------------------------
(* forms.py                                                                *)

\* \s of the re module, among the characters used: TAB and SPACE
IsSpace(c) == c \in {9, 32}

\* the class [\w\s...-] of _q: word characters (letters, digits, underscore),
\* whitespace, the listed accented letters and the hyphen
IsAllowed(c) == c \in {110, 78, 115, 241, 209, 48, 49, 53, 95, 9, 32, 45}

\* str.strip()
RECURSIVE LStrip(_)
LStrip(s) == IF s # <<>> /\ IsSpace(Head(s)) THEN LStrip(Tail(s)) ELSE s

RECURSIVE RStrip(_)
RStrip(s) ==
    IF s # <<>> /\ IsSpace(s[Len(s)]) THEN RStrip(SubSeq(s, 1, Len(s) - 1)) ELSE s

Strip(s) == RStrip(LStrip(s))

\* re.sub(r"[^\w\s...-]", " ", s): every other character becomes a space
BlankDisallowed(s) == [i \in 1..Len(s) |-> IF IsAllowed(s[i]) THEN s[i] ELSE 32]

\* re.sub(r"\s+", " ", s): every run of whitespace becomes one space
RECURSIVE CollapseSpaces(_)
CollapseSpaces(s) ==
    IF s = <<>> THEN <<>>
    ELSE IF IsSpace(Head(s))
         THEN <<32>> \o CollapseSpaces(LStrip(s))
         ELSE <<Head(s)>> \o CollapseSpaces(Tail(s))

\* _q(s)
SanitizeQ(s) == CollapseSpaces(BlankDisallowed(Strip(s)))

\* "xapian" in str(engine).lower()
IsXapian(e) == e = "xapian"

\* _use_normalized_fields()
UseNormalizedFields(flag, e) == IF flag THEN TRUE ELSE IsXapian(e)

\* haystack input types
AutoQuery(text) == [kind |-> "AutoQuery", text |-> text]
Raw(text) == [kind |-> "Raw", text |-> text]

\* SQ(field=input)
SQ(field, input) == [field |-> field, input |-> input]

\* SQ(<title field>=Raw(f'"{q}"^50'))
ExactTitle(field, q) == SQ(field, Raw(<<34>> \o q \o <<34, 94, 53, 48>>))

\* the term clause built with the exact clause's weight
TermTitleHeavy(field, q) == SQ(field, Raw(q \o <<94, 53, 48>>))

\* SQ(<title field>=Raw(f"{q}^10"))
TermTitle(field, q) == SQ(field, Raw(q \o <<94, 49, 48>>))

\* SQ(content=..) | SQ(title=..) | SQ(tags=..) | SQ(body=..)
Multi(fields, input) == [i \in 1..Len(fields) |-> SQ(fields[i], input)]

\* the guard of search() that ignores an empty cleaned query
NoQueryInvalidOnly(valid, q) == ~valid

\* not self.is_valid() or not self.cleaned_data.get("q")
NoQuery(valid, q) == ~valid \/ q = <<>>

\* the argument of searchqueryset.filter: exact_title | term_title | multi
QueryPlan(user_q, normalized, prof, enye, lang) ==
    LET q_auto == AutoQuery(user_q)
        q_raw == SanitizeQ(user_q)
        q_norm == NormalizeText(q_raw, prof, enye, lang)
    IN IF normalized
       THEN <<ExactTitle("title_norm", q_norm),
              TermTitle("title_norm", q_norm),
              Multi(<<"content_norm", "title_norm", "tags_norm", "body_norm">>,
                    AutoQuery(q_norm))>>
       ELSE <<ExactTitle("title", q_raw),
              TermTitle("title", q_raw),
              Multi(<<"content", "title", "tags", "body">>, q_auto)>>

MaxQLen == 3

FormChars == {9, 32, 34, 43, 45, 95, 110, 209}

\* CharField.clean strips the value: cleaned_data["q"] has no outer whitespace
CleanedQueries == {s \in Strings(FormChars, MaxQLen) : Strip(s) = s}

FormInit ==
    /\ fphase = "input"
    /\ fvalid \in BOOLEAN
    /\ fq \in CleanedQueries
    /\ norm_flag \in BOOLEAN
    /\ engine \in {"whoosh", "xapian"}
    /\ foutcome = "none"
    /\ fq_raw = <<>>
    /\ fplan = <<>>
    /\ profile = NoSettingsProfile
    /\ keep_enye \in {"None", "True"}
    /\ base_lang = "es"
    /\ NormOff
    /\ SchemaOff
    /\ RankOff
    /\ ProcessOff
    /\ LangOff
    /\ JaccardOff

\* CMSWeightedSearchForm.search()
Search ==
    /\ fphase = "input"
    /\ fphase' = "done"
    /\ IF NoQuery(fvalid, fq)
       THEN /\ foutcome' = "no_query"
            /\ fq_raw' = <<>>
            /\ fplan' = <<>>
       ELSE /\ foutcome' = "filter"
            /\ fq_raw' = SanitizeQ(fq)
            /\ fplan' = QueryPlan(fq, UseNormalizedFields(norm_flag, engine),
                                  profile, keep_enye, base_lang)
    /\ UNCHANGED <<fvalid, fq, norm_flag, engine>>
    /\ UNCHANGED <<nvars, svars, rvars, pvars, lvars, jvars>>

FormNext == Search

SpecForm == FormInit /\ [][FormNext]_vars

\* s ends with the characters of suffix
EndsWith(s, suffix) ==
    Len(s) >= Len(suffix) /\ SubSeq(s, Len(s) - Len(suffix) + 1, Len(s)) = suffix

\* C8: for every non-empty valid query the plan is the OR of exactly three
\* clauses; the first is a quoted phrase with boost 50 and the second an
\* unquoted term clause with boost 10, both on the same title field, which
\* is title in the raw-field variant and title_norm in the normalized one.
C8_PlanWeights ==
    foutcome = "filter" =>
        /\ Len(fplan) = 3
        /\ fplan[1].input.kind = "Raw"
        /\ Head(fplan[1].input.text) = 34
        /\ EndsWith(fplan[1].input.text, <<34, 94, 53, 48>>)
        /\ Len(fplan[1].input.text) >= 5
        /\ fplan[2].input.kind = "Raw"
        /\ EndsWith(fplan[2].input.text, <<94, 49, 48>>)
        /\ ~Occurs(34, fplan[2].input.text)
        /\ fplan[1].input.text = <<34>> \o SubSeq(fplan[2].input.text, 1,
                                     Len(fplan[2].input.text) - 3) \o <<34, 94, 53, 48>>
        /\ fplan[1].field = fplan[2].field
        /\ fplan[1].field =
              (IF UseNormalizedFields(norm_flag, engine) THEN "title_norm" ELSE "title")

\* C8 witness: a plan was built in the normalized-field variant for a query
\* that sanitizing and folding changed.
C8_Witness ==
    /\ foutcome = "filter"
    /\ fplan[1].field = "title_norm"
    /\ ~norm_flag
    /\ Occurs(43, fq)
    /\ Occurs(209, fq)
    /\ Occurs(110, fplan[2].input.text)

\* C10: search returns the no-query outcome and builds no plan whenever the
\* form is invalid or the cleaned query is empty, and builds a plan exactly
\* for a valid non-empty query; it never ends any other way.
C10_NoQueryOutcome ==
    fphase = "done" =>
        /\ foutcome \in {"no_query", "filter"}
        /\ (~fvalid \/ fq = <<>>) => (foutcome = "no_query" /\ fplan = <<>>)
        /\ (fvalid /\ fq # <<>>) => (foutcome = "filter" /\ fplan # <<>>)

\* C10 witness: a valid form with an empty query got the no-query outcome.
C10_Witness ==
    /\ fphase = "done"
    /\ fvalid
    /\ fq = <<>>

\* letters (accented ones included), digits and the hyphen
IsLetterDigitHyphen(c) == c \in {78, 110, 115, 209, 241, 48, 49, 53, 45}

\* the characters of s that are letters, digits or hyphens, in order
KeptChars(s) == SelectSeq(s, IsLetterDigitHyphen)

\* C15: the sanitized query _q returns has no whitespace at either end and
\* no two whitespace characters in a row, consists of letters, digits,
\* single spaces and hyphens only, and keeps exactly the letters, digits
\* and hyphens of the raw query.
C15_SanitizedForm ==
    foutcome = "filter" =>
        /\ fq_raw # <<>> => (~IsSpace(Head(fq_raw)) /\ ~IsSpace(fq_raw[Len(fq_raw)]))
        /\ \A i \in 1..(Len(fq_raw) - 1) : ~(IsSpace(fq_raw[i]) /\ IsSpace(fq_raw[i + 1]))
        /\ \A i \in 1..Len(fq_raw) : fq_raw[i] = 32 \/ IsLetterDigitHyphen(fq_raw[i])
        /\ KeptChars(fq_raw) = KeptChars(fq)

\* the fields of the multi-field clause, in the order of the plan
MultiFields(multi) == [i \in 1..Len(multi) |-> multi[i].field]

\* the sanitized query as the title clauses of a variant take it: as it is
\* for the raw fields, folded by normalize_text for the normalized fields
TitleQuery ==
    IF UseNormalizedFields(norm_flag, engine)
    THEN NormalizeText(fq_raw, profile, keep_enye, base_lang)
    ELSE fq_raw

---------------------------------------------------------------------------
(* whoosh_backend.py                                                       *)

\* haystack.constants ID, DJANGO_CT, DJANGO_ID
IdentityFields == <<"id", "django_ct", "django_id">>

\* schema_fields[name] = field on an insertion-ordered dict
DictSet(d, name, field) ==
    LET hit == {i \in 1..Len(d) : d[i].name = name}
        e == [name |-> name, type |-> field, spelling |-> FALSE]
    IN IF hit = {} THEN Append(d, e)
       ELSE [i \in 1..Len(d) |-> IF i \in hit THEN e ELSE d[i]]

\* the if / elif chain of build_schema: the Whoosh field type of a field class
WhooshType(fc) ==
    IF fc.is_multivalued
    THEN (IF ~fc.indexed THEN "IDLIST" ELSE "KEYWORD")
    ELSE CASE fc.field_type \in {"date", "datetime"} -> "DATETIME"
           [] fc.field_type = "integer" -> "NUMERIC_int"
           [] fc.field_type = "float" -> "NUMERIC_float"
           [] fc.field_type = "boolean" -> "BOOLEAN"
           [] fc.field_type = "ngram" -> "NGRAM"
           [] fc.field_type = "edge_ngram" -> "NGRAMWORDS"
           [] OTHER -> "TEXT"

\* the loop of build_schema over fields.items(): (schema_fields, content_field_name)
RECURSIVE SchemaLoop(_, _, _)
SchemaLoop(schema, content, fields) ==
    IF fields = <<>> THEN [schema |-> schema, content |-> content]
    ELSE LET fc == Head(fields)
             s1 == DictSet(schema, fc.index_fieldname, WhooshType(fc))
             s2 == IF fc.document
                   THEN [i \in 1..Len(s1) |->
                            IF s1[i].name = fc.index_fieldname
                            THEN [s1[i] EXCEPT !.spelling = TRUE] ELSE s1[i]]
                   ELSE s1
             c2 == IF fc.document THEN fc.index_fieldname ELSE content
         IN SchemaLoop(s2, c2, Tail(fields))

\* the three identity fields build_schema starts from
InitialSchema ==
    [i \in 1..Len(IdentityFields) |->
        [name |-> IdentityFields[i], type |-> "ID", spelling |-> FALSE]]

\* the check made only when keys were lost
NoFieldsFoundStrict(n, initial_key_count) == n < initial_key_count

\* len(schema_fields) <= initial_key_count
NoFieldsFound(n, initial_key_count) == n <= initial_key_count

\* build_schema(fields)
BuildSchema(fields) ==
    LET initial_key_count == Len(InitialSchema)
        r == SchemaLoop(InitialSchema, "", fields)
    IN IF NoFieldsFound(Len(r.schema), initial_key_count)
       THEN [raised |-> TRUE, content |-> "", schema |-> <<>>]
       ELSE [raised |-> FALSE, content |-> r.content, schema |-> r.schema]

MaxFields == 2

FieldNames == {"id", "django_ct", "django_id", "title", "text"}

\* a multivalued field is dispatched on indexed, any other on field_type;
\* the document field is a plain text field
FieldClasses ==
    [index_fieldname : FieldNames, is_multivalued : {TRUE}, indexed : BOOLEAN,
     field_type : {"string"}, document : {FALSE}]
    \cup
    [index_fieldname : FieldNames, is_multivalued : {FALSE}, indexed : {TRUE},
     field_type : {"date", "datetime", "integer", "float", "boolean", "ngram",
                   "edge_ngram", "string"},
     document : {FALSE}]
    \cup
    [index_fieldname : FieldNames, is_multivalued : {FALSE}, indexed : {TRUE},
     field_type : {"string"}, document : {TRUE}]

SchemaInit ==
    /\ sphase = "input"
    /\ sfields \in UNION {[1..k -> FieldClasses] : k \in 0..MaxFields}
    /\ sraised = FALSE
    /\ scontent = ""
    /\ sschema = <<>>
    /\ SettingsOff
    /\ NormOff
    /\ FormOff
    /\ RankOff
    /\ ProcessOff
    /\ LangOff
    /\ JaccardOff

\* WhooshLangBackend.build_schema(fields)
BuildSchemaCall ==
    /\ sphase = "input"
    /\ sphase' = "done"
    /\ LET r == BuildSchema(sfields)
       IN /\ sraised' = r.raised
          /\ scontent' = r.content
          /\ sschema' = r.schema
    /\ UNCHANGED sfields
    /\ UNCHANGED <<nvars, fvars, rvars, pvars, lvars, jvars>>

SchemaNext == BuildSchemaCall

SpecSchema == SchemaInit /\ [][SchemaNext]_vars

\* the index field names of the descriptors that are not identity fields
OtherFields ==
    {sfields[i].index_fieldname : i \in 1..Len(sfields)}
        \ {IdentityFields[i] : i \in 1..Len(IdentityFields)}

\* C9: build_schema raises SearchBackendError exactly when the descriptors
\* add no field besides the three identity fields (an empty descriptor set,
\* or descriptors naming only identity fields); otherwise it returns a
\* schema that holds the identity fields and every field added.
C9_NoSearchableFieldRaises ==
    sphase = "done" =>
        /\ sraised <=> (OtherFields = {})
        /\ ~sraised =>
              {sschema[i].name : i \in 1..Len(sschema)}
                 = OtherFields \cup {IdentityFields[i] : i \in 1..Len(IdentityFields)}

\* C9 witness: descriptors were given, all naming identity fields, and
\* build_schema raised.
C9_Witness ==
    /\ sphase = "done"
    /\ Len(sfields) = 2
    /\ sfields[1].index_fieldname = "id"
    /\ sfields[2].index_fieldname = "django_ct"
    /\ sraised

---------------------------------------------------------------------------
(* views.py                                                                *)

Min(a, b) == IF a <= b THEN a ELSE b
Max(a, b) == IF a >= b THEN a ELSE b

\* str < str: lexicographic on code points
RECURSIVE StrLess(_, _)
StrLess(a, b) ==
    IF b = <<>> THEN FALSE
    ELSE IF a = <<>> THEN TRUE
    ELSE IF Head(a) # Head(b) THEN Head(a) < Head(b)
    ELSE StrLess(Tail(a), Tail(b))

\* \w of the re module, among the characters used
IsWordChar(c) == c \in {48, 49, 53, 78, 95, 110, 115, 209, 241}

\* length of the run of word characters s starts with
RECURSIVE WordRun(_)
WordRun(s) == IF s = <<>> \/ ~IsWordChar(Head(s)) THEN 0 ELSE 1 + WordRun(Tail(s))

\* TOKENIZE(text): the maximal runs of word characters, in order (the
\* [\w\d]+ fallback of _build_tokenizer; the Whoosh tokenizer cuts the
\* folded lower-case text of these characters at the same places)
RECURSIVE Tokenize(_)
Tokenize(s) ==
    IF s = <<>> THEN <<>>
    ELSE IF ~IsWordChar(Head(s)) THEN Tokenize(Tail(s))
    ELSE LET n == WordRun(s)
         IN <<SubSeq(s, 1, n)>> \o Tokenize(SubSeq(s, n + 1, Len(s)))

\* "en", "es" and "auto"
En == <<101, 110>>
Es == <<101, 115>>
Auto == <<97, 117, 116, 111>>

\* bool(value) of an optional string setting: None and "" are false
Truthy(opt) == opt # <<>> /\ opt[1] # <<>>

\* s.split(sep)[0]
SplitFirst(s, sep) ==
    LET at == {i \in 1..Len(s) : s[i] = sep}
    IN IF at = {} THEN s
       ELSE SubSeq(s, 1, (CHOOSE i \in at : \A j \in at : i <= j) - 1)

\* code.split("-")[0].split("_")[0].lower() or "en"
PrimarySubtag(code) ==
    LET base == Lower(SplitFirst(SplitFirst(code, 45), 95))
    IN IF base = <<>> THEN En ELSE base

\* utils.get_base_language() under the given settings
GetBaseLanguage(rsl, hl, lc) ==
    LET code == IF Truthy(rsl) THEN rsl[1]
                ELSE IF Truthy(hl) THEN hl[1]
                ELSE IF lc = <<>> THEN En
                ELSE lc[1]
    IN PrimarySubtag(IF code = <<>> THEN En ELSE code)

\* views._get_base_language() under the given settings
ViewGetBaseLanguage(rl, rsl, hl, lc) ==
    IF Truthy(rl) /\ Lower(rl[1]) # Auto
    THEN PrimarySubtag(rl[1])
    ELSE GetBaseLanguage(rsl, hl, lc)

\* the key of RANKED_SEARCH_FOLDING_PROFILE a base language selects
LangName(base) ==
    CASE base = Es -> "es"
      [] base = En -> "en"
      [] OTHER -> "other"

\* the base language of the view under the settings in force
ViewLanguage ==
    LangName(ViewGetBaseLanguage(rerank_language, ranked_search_language,
                                 haystack_language, language_code))

\* the body of _normalize(s): normalize_text(s, base_lang=_get_base_language())
ViewNormalize(s) == NormalizeText(s, profile, keep_enye, ViewLanguage)

\* the body of _tokens(s) over the body of _normalize
ViewTokens(s) ==
    LET keep(tok) == tok \notin stop_extra /\ Len(tok) > 1
    IN SelectSeq(Tokenize(ViewNormalize(s)), keep)

\* set(list)
ToSet(seq) == {seq[i] : i \in 1..Len(seq)}

\* getattr(res, "title", "") or ""
TitleOf(res) == IF res.title = <<>> THEN <<>> ELSE res.title[1]

\* getattr(res, "score", 0.0) or 0.0
ScoreOf(res) == IF res.score = <<>> THEN 0 ELSE res.score[1]

\* functools.lru_cache(maxsize=50000): lookup and insertion.  The strings
\* of the model are far fewer than maxsize, so no entry is ever evicted.
CacheHas(cache, k) == \E e \in cache : e.key = k
CacheGet(cache, k) == (CHOOSE e \in cache : e.key = k).val
CachePut(cache, k, v) == cache \cup {[key |-> k, val |-> v]}

\* _normalize(s) through its lru_cache: the result and the cache afterwards
NormalizeCached(ncache, s) ==
    IF CacheHas(ncache, s)
    THEN [val |-> CacheGet(ncache, s), ncache |-> ncache]
    ELSE LET v == ViewNormalize(s)
         IN [val |-> v, ncache |-> CachePut(ncache, s, v)]

\* the filter of _tokens: custom stopwords and short tokens are dropped
FilterTokens(toks) ==
    LET keep(tok) == tok \notin stop_extra /\ Len(tok) > 1
    IN SelectSeq(toks, keep)

\* a cache miss of _tokens, n being what _normalize(s) gave
TokensMiss(tcache, s, n) ==
    LET toks == FilterTokens(Tokenize(n.val))
    IN [val |-> toks, ncache |-> n.ncache, tcache |-> CachePut(tcache, s, toks)]

\* _tokens(s) through its lru_cache: the result and both caches afterwards
TokensCached(ncache, tcache, s) ==
    IF CacheHas(tcache, s)
    THEN [val |-> CacheGet(tcache, s), ncache |-> ncache, tcache |-> tcache]
    ELSE TokensMiss(tcache, s, NormalizeCached(ncache, s))

\* the similarity with the size of the first set as its denominator
JaccardOverFirst(A, B) ==
    IF A # {} /\ B # {}
    THEN [num |-> Cardinality(A \cap B), den |-> Cardinality(A)]
    ELSE [num |-> 0, den |-> 1]

\* (len(A & B) / float(len(A | B))) if A and B else 0.0, kept as the
\* fraction num / den
JaccardOfSets(A, B) ==
    IF A # {} /\ B # {}
    THEN [num |-> Cardinality(A \cap B), den |-> Cardinality(A \cup B)]
    ELSE [num |-> 0, den |-> 1]

\* the return of _jaccard: a and b are what _tokens(query) and
\* _tokens(title) gave
JaccardResult(a, b) ==
    [val |-> JaccardOfSets(ToSet(a.val), ToSet(b.val)),
     ncache |-> b.ncache, tcache |-> b.tcache]

JaccardTitle(title, a) == JaccardResult(a, TokensCached(a.ncache, a.tcache, title))

\* _jaccard(query, title): the similarity and the two lru_caches afterwards
Jaccard(query, title, ncache, tcache) ==
    JaccardTitle(title, TokensCached(ncache, tcache, query))

\* the tuple key(res) returns from the looked-up t_norm and toks:
\* (not exact, -pct, -score, toks_len, t_norm), with pct kept as the
\* fraction num / den
Key(res, t_norm, toks, q_norm, q_tokens) ==
    LET exact == t_norm = q_norm
        overlap == ~exact /\ q_tokens # {} /\ toks # <<>>
    IN [not_exact |-> ~exact,
        num |-> IF overlap THEN Cardinality(q_tokens \cap ToSet(toks)) ELSE 0,
        den |-> IF overlap THEN Cardinality(q_tokens \cup ToSet(toks)) ELSE 1,
        score |-> ScoreOf(res),
        toks_len |-> IF exact THEN 0 ELSE Len(toks),
        t_norm |-> t_norm]

\* the end of key(res): n and t are what the two lookups gave
KeyResult(res, q_norm, q_tokens, st, n, t) ==
    [key |-> Key(res, n.val, t.val, q_norm, q_tokens),
     st |-> [ncache |-> t.ncache, tcache |-> t.tcache,
             tn |-> CachePut(st.tn, TitleOf(res), n.val),
             tt |-> IF n.val = q_norm THEN st.tt
                    ELSE CachePut(st.tt, TitleOf(res), t.val)]]

\* the tokens lookup of key(res), skipped for an exact match:
\* title_tokens_cache, then _tokens(title)
KeyTokens(res, q_norm, q_tokens, st, n) ==
    KeyResult(res, q_norm, q_tokens, st, n,
        IF n.val = q_norm
        THEN [val |-> <<>>, ncache |-> n.ncache, tcache |-> st.tcache]
        ELSE IF CacheHas(st.tt, TitleOf(res))
        THEN [val |-> CacheGet(st.tt, TitleOf(res)), ncache |-> n.ncache,
              tcache |-> st.tcache]
        ELSE TokensCached(n.ncache, st.tcache, TitleOf(res)))

\* key(res) with its lookups: title_norm_cache and title_tokens_cache (tn
\* and tt, the dicts of one call) in front of the two lru_caches
KeyCached(res, q_norm, q_tokens, st) ==
    KeyTokens(res, q_norm, q_tokens, st,
        IF CacheHas(st.tn, TitleOf(res))
        THEN [val |-> CacheGet(st.tn, TitleOf(res)), ncache |-> st.ncache]
        ELSE NormalizeCached(st.ncache, TitleOf(res)))

\* the keys of the list, computed in list order
RECURSIVE KeyItems(_, _, _, _, _)
RECURSIVE KeyItemsNext(_, _, _, _, _)
KeyItems(list, q_norm, q_tokens, st, keyed) ==
    IF list = <<>> THEN [keyed |-> keyed, st |-> st]
    ELSE KeyItemsNext(list, q_norm, q_tokens, keyed,
                      KeyCached(Head(list), q_norm, q_tokens, st))

KeyItemsNext(list, q_norm, q_tokens, keyed, k) ==
    KeyItems(Tail(list), q_norm, q_tokens, k.st,
             Append(keyed, [res |-> Head(list), key |-> k.key]))

\* the key order with the backend score ascending
KeyLessScoreAscending(a, b) ==
    IF a.not_exact # b.not_exact THEN ~a.not_exact
    ELSE IF a.num * b.den # b.num * a.den THEN a.num * b.den > b.num * a.den
    ELSE IF a.score # b.score THEN a.score < b.score
    ELSE IF a.toks_len # b.toks_len THEN a.toks_len < b.toks_len
    ELSE StrLess(a.t_norm, b.t_norm)

\* the key order with the backend score ahead of the exact-match flag
KeyLessScoreFirst(a, b) ==
    IF a.score # b.score THEN a.score > b.score
    ELSE IF a.not_exact # b.not_exact THEN ~a.not_exact
    ELSE IF a.num * b.den # b.num * a.den THEN a.num * b.den > b.num * a.den
    ELSE IF a.toks_len # b.toks_len THEN a.toks_len < b.toks_len
    ELSE StrLess(a.t_norm, b.t_norm)

\* tuple < tuple on two keys: False < True, then -pct, -score, toks_len, t_norm
KeyLess(a, b) ==
    IF a.not_exact # b.not_exact THEN ~a.not_exact
    ELSE IF a.num * b.den # b.num * a.den THEN a.num * b.den > b.num * a.den
    ELSE IF a.score # b.score THEN a.score > b.score
    ELSE IF a.toks_len # b.toks_len THEN a.toks_len < b.toks_len
    ELSE StrLess(a.t_norm, b.t_norm)

\* list.sort(key=key) computes every key once and is stable: an element
\* goes before the first sorted element whose key is greater than its own
RECURSIVE InsertByKey(_, _)
InsertByKey(sorted, x) ==
    IF sorted = <<>> THEN <<x>>
    ELSE IF KeyLess(x.key, Head(sorted).key)
         THEN <<x>> \o sorted
         ELSE <<Head(sorted)>> \o InsertByKey(Tail(sorted), x)

RECURSIVE SortKeyed(_)
SortKeyed(keyed) ==
    IF keyed = <<>> THEN <<>>
    ELSE InsertByKey(SortKeyed(SubSeq(keyed, 1, Len(keyed) - 1)), keyed[Len(keyed)])

\* the outcome of items.sort(key=key): the sorted list, the keys in list
\* order and the two lru_caches afterwards
SortResult(k, sorted) ==
    [items |-> [i \in 1..Len(sorted) |-> sorted[i].res],
     keys |-> [i \in 1..Len(k.keyed) |-> k.keyed[i].key],
     ncache |-> k.st.ncache,
     tcache |-> k.st.tcache]

\* the keys computed, the stable sort on them
SortKeys(k) == SortResult(k, SortKeyed(k.keyed))

\* items.sort(key=key), q_norm and q_tokens being what _normalize(raw_q)
\* and then _tokens(raw_q) gave
SortByKey(list, q_norm, q_tokens) ==
    SortKeys(KeyItems(list, q_norm.val, ToSet(q_tokens.val),
                      [ncache |-> q_tokens.ncache, tcache |-> q_tokens.tcache,
                       tn |-> EmptyCache, tt |-> EmptyCache], <<>>))

\* q_tokens and the sort of paginate_queryset
RerankWith(list, q, tcache, q_norm) ==
    SortByKey(list, q_norm, TokensCached(q_norm.ncache, tcache, q))

\* lines 129-163 of paginate_queryset from the caches as they stand
Rerank(list, q, ncache, tcache) ==
    RerankWith(list, q, tcache, NormalizeCached(ncache, q))

\* getattr(settings, "RERANK_CEILING", 1000)
DefaultCeiling == 1000

\* max(int(page_size) * 10, 200)
PoolFactor == 10
PoolFloor == 200

\* the pool left unclamped when it is larger than the ceiling
PoolSizeUnclamped(pool_setting, ceiling_setting, size) ==
    LET ceiling == IF ceiling_setting = <<>> THEN DefaultCeiling ELSE ceiling_setting[1]
        pool == IF pool_setting = <<>> \/ pool_setting[1] = 0
                THEN Max(size * PoolFactor, PoolFloor)
                ELSE pool_setting[1]
    IN Max(pool, ceiling)

\* the pool of paginate_queryset: "if not pool" holds for None and for 0
PoolSize(pool_setting, ceiling_setting, size) ==
    LET ceiling == IF ceiling_setting = <<>> THEN DefaultCeiling ELSE ceiling_setting[1]
        pool == IF pool_setting = <<>> \/ pool_setting[1] = 0
                THEN Max(size * PoolFactor, PoolFloor)
                ELSE pool_setting[1]
    IN Min(pool, ceiling)

\* list(queryset): the first pool hits when set_limits(0, pool) took effect,
\* every hit when it raised
Fetch(all, pool, limited) ==
    IF limited THEN SubSeq(all, 1, Min(pool, Len(all))) ELSE all

\* int(str) for an optional sign and decimal digits: <<>> for ValueError
RECURSIVE DigitsValue(_, _)
DigitsValue(s, acc) ==
    IF s = <<>> THEN <<acc>>
    ELSE IF Head(s) \in 48..57 THEN DigitsValue(Tail(s), acc * 10 + (Head(s) - 48))
    ELSE <<>>

ParseInt(s) ==
    IF s = <<>> THEN <<>>
    ELSE IF Head(s) = 45
         THEN (IF Tail(s) = <<>> \/ DigitsValue(Tail(s), 0) = <<>> THEN <<>>
               ELSE <<0 - DigitsValue(Tail(s), 0)[1]>>)
         ELSE DigitsValue(s, 0)

\* Paginator.num_pages (orphans 0, allow_empty_first_page True)
NumPages(count, per_page) == (Max(1, count) + per_page - 1) \div per_page

\* Paginator.validate_number: <<>> for InvalidPage (PageNotAnInteger or
\* EmptyPage), else <<number>>
ValidateNumber(number, count, per_page) ==
    LET n == ParseInt(number)
    IN IF n = <<>> THEN <<>>
       ELSE IF n[1] < 1 THEN <<>>
       ELSE IF n[1] > NumPages(count, per_page) /\ n[1] # 1 THEN <<>>
       ELSE n

\* Paginator.page(number).object_list for a valid number
PageSlice(list, number, per_page) ==
    SubSeq(list, (number - 1) * per_page + 1, Min(number * per_page, Len(list)))

\* the page asked for when the requested one is invalid: the last page
FallbackLastPage(count, per_page) == <<NumPages(count, per_page)>>

\* except InvalidPage: page = paginator.page(1)
FallbackPage(count, per_page) == ValidateNumber(<<49>>, count, per_page)

\* paginator.page(page_num), falling back on InvalidPage:
\* <<>> when the fallback raises too, else <<number>>
ChoosePage(param, count, per_page) ==
    LET page_num == IF param = <<>> THEN <<49>> ELSE param
        first == ValidateNumber(page_num, count, per_page)
    IN IF first # <<>> THEN first ELSE FallbackPage(count, per_page)

MaxHits == 3

\* candidate titles: "Ñs", "nn", "ns s ns", "ns nn"
Titles == {<<<<209, 115>>>>, <<<<110, 110>>>>,
           <<<<110, 115, 32, 115, 32, 110, 115>>>>, <<<<110, 115, 32, 110, 110>>>>}

\* backend scores: none, 1
Scores == {<<>>, <<1>>}

\* a backend hit: its stored title and its score; one hit has neither
Candidates == [title : Titles, score : Scores] \cup {[title |-> <<>>, score |-> <<>>]}

HitLists(cands, n) == UNION {[1..k -> cands] : k \in 0..n}

\* the query with the stopword overrides in force: "ns" and "Ns nn" with
\* none, "Ns nn" with the stopword "nn"
Queries ==
    {[q |-> <<110, 115>>, stop |-> {}],
     [q |-> <<78, 115, 32, 110, 110>>, stop |-> {}],
     [q |-> <<78, 115, 32, 110, 110>>, stop |-> {<<110, 110>>}]}

\* ?page= absent, "0", "2", "x"
PageParams == {<<>>, <<48>>, <<50>>, <<120>>}

\* RERANK_POOL, RERANK_CEILING, page_size and whether set_limits works
Config(pool, ceiling, size, limited) ==
    [pool |-> pool, ceiling |-> ceiling, size |-> size, limited |-> limited]

\* every combination of the settings and of the page parameter, run
\* against the lists of two of the candidates
WideConfigs ==
    [pool : {<<>>, <<0>>, <<2>>, <<500>>}, ceiling : {<<>>, <<1>>, <<300>>},
     size : {1, 2, 50}, limited : BOOLEAN]

WideCandidates ==
    {[title |-> <<<<110, 110>>>>, score |-> <<1>>],
     [title |-> <<<<209, 115>>>>, score |-> <<>>]}

\* the settings run against the lists of all candidates: the defaults with
\* pages of two, and an explicit pool of two with pages of one
NarrowConfigs ==
    {Config(<<>>, <<>>, 2, TRUE), Config(<<2>>, <<300>>, 1, TRUE)}

NarrowPageParams == {<<>>, <<50>>}

RankInit ==
    /\ rphase = "input"
    /\ \/ \E c \in WideConfigs :
             /\ rerank_pool = c.pool
             /\ rerank_ceiling = c.ceiling
             /\ page_size = c.size
             /\ limits_ok = c.limited
             /\ hits \in HitLists(WideCandidates, MaxHits)
             /\ page_param \in PageParams
       \/ \E c \in NarrowConfigs :
             /\ rerank_pool = c.pool
             /\ rerank_ceiling = c.ceiling
             /\ page_size = c.size
             /\ limits_ok = c.limited
             /\ hits \in HitLists(Candidates, MaxHits)
             /\ page_param \in NarrowPageParams
    /\ \E query \in Queries :
          /\ raw_q = query.q
          /\ stop_extra = query.stop
    /\ pool_req = 0
    /\ items = <<>>
    /\ page_number = 0
    /\ object_list = <<>>
    /\ has_other = FALSE
    /\ rraised = FALSE
    /\ SettingsOff
    /\ NormOff
    /\ FormOff
    /\ SchemaOff
    /\ rerank_language = <<>>
    /\ ranked_search_language = <<>>
    /\ haystack_language = <<>>
    /\ language_code = <<>>
    /\ stopwords_add = stop_extra
    /\ stopwords_remove = {}
    /\ norm_cache = EmptyCache
    /\ tokens_cache = EmptyCache
    /\ item_keys = <<>>
    /\ LangOff
    /\ JaccardOff

\* the end of paginate_queryset: s is the sorted pool, page the number of
\* the page returned (<<>> when paginator.page raised twice)
PaginateResult(pool, s, page) ==
    /\ pool_req' = pool
    /\ items' = s.items
    /\ item_keys' = s.keys
    /\ norm_cache' = s.ncache
    /\ tokens_cache' = s.tcache
    /\ IF page = <<>>
       THEN /\ rraised' = TRUE
            /\ page_number' = 0
            /\ object_list' = <<>>
            /\ has_other' = FALSE
       ELSE /\ rraised' = FALSE
            /\ page_number' = page[1]
            /\ object_list' = PageSlice(s.items, page[1], page_size)
            /\ has_other' = (NumPages(Len(s.items), page_size) > 1)

PaginateSorted(pool, s) ==
    PaginateResult(pool, s, ChoosePage(page_param, Len(s.items), page_size))

PaginatePool(pool) ==
    PaginateSorted(pool, Rerank(Fetch(hits, pool, limits_ok), raw_q,
                                norm_cache, tokens_cache))

\* CMSWeightedSearchView.paginate_queryset(queryset, page_size)
PaginateQueryset ==
    /\ rphase = "input"
    /\ rphase' = "done"
    /\ PaginatePool(PoolSize(rerank_pool, rerank_ceiling, page_size))
    /\ UNCHANGED <<rerank_pool, rerank_ceiling, stop_extra, page_size, raw_q,
                   page_param, hits, limits_ok>>
    /\ UNCHANGED <<rerank_language, ranked_search_language, haystack_language,
                   language_code, stopwords_add, stopwords_remove>>
    /\ UNCHANGED <<nvars, fvars, svars, lvars, jvars>>

RankNext == PaginateQueryset

SpecRank == RankInit /\ [][RankNext]_vars

---------------------------------------------------------------------------
(* Properties of paginate_queryset                                         *)

\* the candidate's normalized title equals the normalized query
IsExact(res) == ViewNormalize(TitleOf(res)) = ViewNormalize(raw_q)

\* C1: in the sorted list every candidate whose normalized title equals the
\* normalized query stands before every candidate whose normalized title
\* differs from it, whatever their backend scores (a missing score included).
C1_ExactFirst ==
    rphase = "done" =>
        \A i, j \in 1..Len(items) :
            (IsExact(items[i]) /\ ~IsExact(items[j])) => i < j

\* C1 witness: the backend returned a scored non-exact hit ahead of an exact
\* hit without a score, and the sorted list has the exact hit first.
C1_Witness ==
    /\ rphase = "done"
    /\ Len(items) >= 2
    /\ IsExact(items[1])
    /\ items[1].score = <<>>
    /\ ~IsExact(items[2])
    /\ items[2].score = <<1>>
    /\ hits[1] = items[2]

\* the token sets of the query and of a candidate's title
QueryTokenSet == ToSet(ViewTokens(raw_q))
TitleTokenSet(res) == ToSet(ViewTokens(TitleOf(res)))

\* the Jaccard similarity of a candidate as the fraction n / d: 0 for an
\* exact match and when either token set is empty
SimN(res) ==
    IF IsExact(res) \/ QueryTokenSet = {} \/ TitleTokenSet(res) = {} THEN 0
    ELSE Cardinality(QueryTokenSet \cap TitleTokenSet(res))

SimD(res) ==
    IF IsExact(res) \/ QueryTokenSet = {} \/ TitleTokenSet(res) = {} THEN 1
    ELSE Cardinality(QueryTokenSet \cup TitleTokenSet(res))

\* the number of filtered title tokens, 0 for an exact match
TokenCount(res) == IF IsExact(res) THEN 0 ELSE Len(ViewTokens(TitleOf(res)))

\* a's key (is_not_exact, -similarity, -score, token_count, canonical_title)
\* is lexicographically greater than b's
KeyAfter(a, b) ==
    IF IsExact(a) # IsExact(b) THEN IsExact(b)
    ELSE IF SimN(a) * SimD(b) # SimN(b) * SimD(a)
         THEN SimN(a) * SimD(b) < SimN(b) * SimD(a)
    ELSE IF ScoreOf(a) # ScoreOf(b) THEN ScoreOf(a) < ScoreOf(b)
    ELSE IF TokenCount(a) # TokenCount(b) THEN TokenCount(a) > TokenCount(b)
    ELSE StrLess(ViewNormalize(TitleOf(b)), ViewNormalize(TitleOf(a)))

\* C2: in the sorted list the key of each candidate is lexicographically
\* less than or equal to the key of the next one: exact matches first,
\* then higher Jaccard similarity, then higher backend score, then fewer
\* filtered title tokens, then the smaller normalized title; two adjacent
\* exact matches are in descending score order.
C2_SortedByKey ==
    rphase = "done" =>
        \A i \in 1..(Len(items) - 1) :
            /\ ~KeyAfter(items[i], items[i + 1])
            /\ (IsExact(items[i]) /\ IsExact(items[i + 1]))
                  => ScoreOf(items[i]) >= ScoreOf(items[i + 1])

\* C2 witness: three non-exact candidates of equal similarity and score,
\* the first two ordered by normalized title and the last two by token
\* count, returned by the backend in another order.
C2_Witness ==
    /\ rphase = "done"
    /\ Len(items) = 3
    /\ \A i \in 1..3 : ~IsExact(items[i]) /\ SimN(items[i]) = 1 /\ SimD(items[i]) = 2
    /\ ScoreOf(items[1]) = ScoreOf(items[2]) /\ ScoreOf(items[2]) = ScoreOf(items[3])
    /\ TokenCount(items[1]) = TokenCount(items[2])
    /\ StrLess(ViewNormalize(TitleOf(items[1])), ViewNormalize(TitleOf(items[2])))
    /\ TokenCount(items[2]) < TokenCount(items[3])
    /\ hits[1] = items[3]
    /\ hits[2] = items[2]

\* C3: the pool passed to set_limits(0, pool) is min(P, ceiling), where P is
\* RERANK_POOL when it is set (to a value other than 0, which the code takes
\* as not set) and max(page_size * 10, 200) otherwise, and ceiling is
\* RERANK_CEILING, 1000 by default; the pool never exceeds the ceiling, and
\* a backend that honours the limit hands over at most pool candidates.
C3_PoolClamped ==
    rphase = "done" =>
        LET P == IF rerank_pool # <<>> /\ rerank_pool # <<0>>
                 THEN rerank_pool[1]
                 ELSE (IF page_size * 10 >= 200 THEN page_size * 10 ELSE 200)
            ceiling == IF rerank_ceiling = <<>> THEN 1000 ELSE rerank_ceiling[1]
        IN /\ pool_req = (IF P <= ceiling THEN P ELSE ceiling)
           /\ pool_req <= ceiling
           /\ limits_ok => Len(items) <= pool_req

\* C3 witness: page_size 50, no explicit pool, ceiling 300: the pool is 300.
C3_Witness ==
    /\ rphase = "done"
    /\ page_size = 50
    /\ rerank_pool = <<>>
    /\ rerank_ceiling = <<300>>
    /\ pool_req = 300

\* the number of pages of the sorted pool
LastPage == IF items = <<>> THEN 1 ELSE (Len(items) + page_size - 1) \div page_size

\* the requested page is a number of an existing page
PageInRange ==
    /\ ParseInt(page_param) # <<>>
    /\ ParseInt(page_param)[1] >= 1
    /\ ParseInt(page_param)[1] <= LastPage

\* C4: paginate_queryset never raises for a page number; a missing,
\* non-numeric or out-of-range page number yields page 1 of the sorted pool
\* and an in-range page number yields that page.
C4_PageFallback ==
    rphase = "done" =>
        /\ ~rraised
        /\ LET n == IF PageInRange THEN ParseInt(page_param)[1] ELSE 1
           IN /\ page_number = n
              /\ object_list = SubSeq(items, (n - 1) * page_size + 1,
                                      Min(n * page_size, Len(items)))

\* C4 witness: the page number is not a number, the pool has two pages, and
\* the first page is returned.
C4_Witness ==
    /\ rphase = "done"
    /\ page_param = <<120>>
    /\ Len(items) = 3
    /\ page_size = 2
    /\ page_number = 1
    /\ object_list = SubSeq(items, 1, 2)
    /\ has_other
    /\ ~rraised

---------------------------------------------------------------------------
(* views.py in a running process: requests follow one another and the      *)
(* settings change between them, while STOP_EXTRA and the two lru_caches   *)
(* stay as the module holds them                                           *)

MaxPool == 2

\* the folding profile of the process: Spanish keeps the n-tilde
ProcessProfile ==
    [default |-> NoProfile, es |-> [preserve |-> {241}, replace |-> <<>>]]

\* the hits a backend returns: "Ñs" without a score, "nn" with score 1
ProcessCandidates ==
    {[title |-> <<<<209, 115>>>>, score |-> <<>>],
     [title |-> <<<<110, 110>>>>, score |-> <<1>>]}

\* the queries users send: "ns" and "Ns nn"
ProcessQueries == {<<110, 115>>, <<78, 115, 32, 110, 110>>}

\* values of RERANK_LANGUAGE and LANGUAGE_CODE: not set, "es", "es-ES"
RerankLanguages == {<<>>, <<Es>>}
LanguageCodes == {<<>>, <<<<101, 115, 45, 69, 83>>>>}

\* values of RERANK_STOPWORDS_ADD: nothing, {"nn"}
StopwordSets == {{}, {<<110, 110>>}}

\* _stopset() under the given settings
Stopset(add, remove) == add \ remove

\* the module is imported (STOP_EXTRA = _stopset(), empty caches) and the
\* first request is waiting
ProcessInit ==
    /\ rphase = "input"
    /\ rerank_pool = <<>>
    /\ rerank_ceiling = <<>>
    /\ page_size = 2
    /\ page_param = <<>>
    /\ limits_ok = TRUE
    /\ raw_q \in ProcessQueries
    /\ hits \in HitLists(ProcessCandidates, MaxPool)
    /\ pool_req = 0
    /\ items = <<>>
    /\ page_number = 0
    /\ object_list = <<>>
    /\ has_other = FALSE
    /\ rraised = FALSE
    /\ profile = ProcessProfile
    /\ keep_enye = "None"
    /\ base_lang = "en"
    /\ rerank_language \in RerankLanguages
    /\ ranked_search_language = <<>>
    /\ haystack_language = <<>>
    /\ language_code = <<>>
    /\ stopwords_add \in StopwordSets
    /\ stopwords_remove = {}
    /\ stop_extra = Stopset(stopwords_add, stopwords_remove)
    /\ norm_cache = EmptyCache
    /\ tokens_cache = EmptyCache
    /\ item_keys = <<>>
    /\ NormOff
    /\ FormOff
    /\ SchemaOff
    /\ LangOff
    /\ JaccardOff

\* the next request reaches the view
Request ==
    /\ rphase = "done"
    /\ rphase' = "input"
    /\ raw_q' \in ProcessQueries
    /\ hits' \in HitLists(ProcessCandidates, MaxPool)
    /\ pool_req' = 0
    /\ items' = <<>>
    /\ item_keys' = <<>>
    /\ page_number' = 0
    /\ object_list' = <<>>
    /\ has_other' = FALSE
    /\ rraised' = FALSE
    /\ UNCHANGED <<rerank_pool, rerank_ceiling, stop_extra, page_size,
                   page_param, limits_ok>>
    /\ UNCHANGED <<rerank_language, ranked_search_language, haystack_language,
                   language_code, stopwords_add, stopwords_remove, norm_cache,
                   tokens_cache>>
    /\ UNCHANGED <<nvars, fvars, svars, lvars, jvars>>

\* settings.RERANK_LANGUAGE takes another value
SetRerankLanguage ==
    /\ rphase = "input"
    /\ rerank_language' \in RerankLanguages \ {rerank_language}
    /\ UNCHANGED <<ranked_search_language, haystack_language, language_code,
                   stopwords_add, stopwords_remove, norm_cache, tokens_cache,
                   item_keys>>
    /\ UNCHANGED <<nvars, fvars, svars, rvars, lvars, jvars>>

\* settings.LANGUAGE_CODE takes another value
SetLanguageCode ==
    /\ rphase = "input"
    /\ language_code' \in LanguageCodes \ {language_code}
    /\ UNCHANGED <<rerank_language, ranked_search_language, haystack_language,
                   stopwords_add, stopwords_remove, norm_cache, tokens_cache,
                   item_keys>>
    /\ UNCHANGED <<nvars, fvars, svars, rvars, lvars, jvars>>

\* settings.RERANK_STOPWORDS_ADD takes another value
SetStopwords ==
    /\ rphase = "input"
    /\ stopwords_add' \in StopwordSets \ {stopwords_add}
    /\ UNCHANGED <<rerank_language, ranked_search_language, haystack_language,
                   language_code, stopwords_remove, norm_cache, tokens_cache,
                   item_keys>>
    /\ UNCHANGED <<nvars, fvars, svars, rvars, lvars, jvars>>

\* settings.RANKED_SEARCH_KEEP_ENYE takes another value: the folding
\* profile in force changes
SetKeepEnye ==
    /\ rphase = "input"
    /\ keep_enye' \in {"None", "True"} \ {keep_enye}
    /\ UNCHANGED <<nphase, profile, base_lang, ntext, nout, nout2>>
    /\ UNCHANGED <<fvars, svars, rvars, pvars, lvars, jvars>>

ProcessNext ==
    \/ PaginateQueryset
    \/ Request
    \/ SetRerankLanguage
    \/ SetLanguageCode
    \/ SetStopwords
    \/ SetKeepEnye

SpecProcess == ProcessInit /\ [][ProcessNext]_vars

---------------------------------------------------------------------------
(* Properties of the view in a running process                             *)

\* the pool the last run sorted, in backend order
Fetched == Fetch(hits, pool_req, limits_ok)

\* the ordering a run over the same pool and query returns when both
\* lru_caches are empty before it
FreshOrder == Rerank(Fetched, raw_q, EmptyCache, EmptyCache).items

\* C11: the ordering paginate_queryset returns for a pool and a query does
\* not depend on what the memo caches held before the run: it is the
\* ordering the run over the same pool and query returns from empty caches;
\* and two candidates of the pool with the same title and the same score
\* got identical sort keys.
C11_OrderIndependentOfCaches ==
    rphase = "done" =>
        /\ items = FreshOrder
        /\ \A i, j \in 1..Len(item_keys) :
              Fetched[i] = Fetched[j] => item_keys[i] = item_keys[j]

\* the strings the view normalizes and tokenizes: the queries and the titles
ProcessStrings == ProcessQueries \cup {TitleOf(c) : c \in ProcessCandidates}

\* _tokens(s) computed without the caches under the settings in force: the
\* stopwords are RERANK_STOPWORDS_ADD less RERANK_STOPWORDS_REMOVE
CurrentTokens(s) ==
    LET keep(tok) == tok \notin Stopset(stopwords_add, stopwords_remove) /\ Len(tok) > 1
    IN SelectSeq(Tokenize(ViewNormalize(s)), keep)

\* C13: whatever requests and settings changes came before, the memoized
\* _normalize(s) and _tokens(s) return for every string s what a computation
\* without the caches returns under the base language, folding profile and
\* stopword settings now in force.
C13_CachesFollowSettings ==
    \A s \in ProcessStrings :
        /\ NormalizeCached(norm_cache, s).val = ViewNormalize(s)
        /\ TokensCached(norm_cache, tokens_cache, s).val = CurrentTokens(s)

---------------------------------------------------------------------------
(* _jaccard and the similarity of the sort key on the same two strings      *)

MaxWords == 2

\* the words of queries and titles: "ns", "nn", "sn", "s", "Ñs"
Words == {<<110, 115>>, <<110, 110>>, <<115, 110>>, <<115>>, <<209, 115>>}

\* " ".join(words)
RECURSIVE JoinWords(_)
JoinWords(ws) ==
    IF ws = <<>> THEN <<>>
    ELSE IF Len(ws) = 1 THEN ws[1]
    ELSE ws[1] \o <<32>> \o JoinWords(Tail(ws))

\* the texts of at most MaxWords words
Texts == {JoinWords(ws) : ws \in UNION {[1..k -> Words] : k \in 0..MaxWords}}

JaccardInit ==
    /\ jphase = "input"
    /\ jquery \in Texts
    /\ jtitle \in Texts
    /\ jout = <<>>
    /\ jout2 = <<>>
    /\ jkey = <<>>
    /\ rphase = "off"
    /\ rerank_pool = <<>>
    /\ rerank_ceiling = <<>>
    /\ page_size = 1
    /\ raw_q = <<>>
    /\ page_param = <<>>
    /\ hits = <<>>
    /\ limits_ok = TRUE
    /\ pool_req = 0
    /\ items = <<>>
    /\ page_number = 0
    /\ object_list = <<>>
    /\ has_other = FALSE
    /\ rraised = FALSE
    /\ rerank_language = <<>>
    /\ ranked_search_language = <<>>
    /\ haystack_language = <<>>
    /\ language_code = <<>>
    /\ stopwords_add \in StopwordSets
    /\ stopwords_remove = {}
    /\ stop_extra = Stopset(stopwords_add, stopwords_remove)
    /\ norm_cache = EmptyCache
    /\ tokens_cache = EmptyCache
    /\ item_keys = <<>>
    /\ SettingsOff
    /\ NormOff
    /\ FormOff
    /\ SchemaOff
    /\ LangOff

JaccardFrame ==
    /\ UNCHANGED <<jquery, jtitle>>
    /\ UNCHANGED <<rerank_language, ranked_search_language, haystack_language,
                   language_code, stopwords_add, stopwords_remove, item_keys>>
    /\ UNCHANGED <<nvars, fvars, svars, rvars, lvars>>

\* _jaccard(query, title)
JaccardCall ==
    /\ jphase = "input"
    /\ jphase' = "called"
    /\ LET r == Jaccard(jquery, jtitle, norm_cache, tokens_cache)
       IN /\ jout' = r.val
          /\ norm_cache' = r.ncache
          /\ tokens_cache' = r.tcache
    /\ UNCHANGED <<jout2, jkey>>
    /\ JaccardFrame

\* _jaccard(title, query)
JaccardSwapped ==
    /\ jphase = "called"
    /\ jphase' = "done"
    /\ LET r == Jaccard(jtitle, jquery, norm_cache, tokens_cache)
       IN /\ jout2' = r.val
          /\ norm_cache' = r.ncache
          /\ tokens_cache' = r.tcache
    /\ UNCHANGED <<jout, jkey>>
    /\ JaccardFrame

\* the sort of paginate_queryset under the query over one hit with the title
KeyCall ==
    /\ jphase = "called"
    /\ jphase' = "done"
    /\ LET s == Rerank(<<[title |-> <<jtitle>>, score |-> <<>>]>>, jquery,
                       norm_cache, tokens_cache)
       IN /\ jkey' = s.keys[1]
          /\ norm_cache' = s.ncache
          /\ tokens_cache' = s.tcache
    /\ UNCHANGED <<jout, jout2>>
    /\ JaccardFrame

JaccardNext == JaccardCall \/ JaccardSwapped \/ KeyCall

SpecJaccard == JaccardInit /\ [][JaccardNext]_vars

\* the token sets of the two strings
QuerySet == ToSet(ViewTokens(jquery))
TitleSet == ToSet(ViewTokens(jtitle))

\* C12: _jaccard(query, title) is 0.0 when either token set is empty, 1.0
\* when the two sets are identical and non-empty, |A & B| / |A | B|
\* otherwise and between 0 and 1 always; _jaccard(title, query) gives the
\* same value; and the similarity in the sort key of a hit that is not an
\* exact match is that value too.
C12_JaccardProperties ==
    jphase # "input" =>
        /\ (QuerySet = {} \/ TitleSet = {}) => jout.num = 0
        /\ (QuerySet = TitleSet /\ QuerySet # {}) => jout.num = jout.den
        /\ (QuerySet # {} /\ TitleSet # {}) =>
              /\ jout.num = Cardinality(QuerySet \cap TitleSet)
              /\ jout.den = Cardinality(QuerySet \cup TitleSet)
        /\ 0 <= jout.num /\ jout.num <= jout.den /\ jout.den > 0
        /\ jout2 # <<>> => jout2.num * jout.den = jout.num * jout2.den
        /\ (jkey # <<>> /\ jkey.not_exact) =>
              jkey.num * jout.den = jout.num * jkey.den

\* C12 witness: both calls were made, with a stopword configured, on two
\* strings whose token sets differ and overlap, the query holding a token
\* that is repeated or filtered out.
C12_Witness ==
    /\ jphase = "done"
    /\ jout2 # <<>>
    /\ 0 < jout.num
    /\ jout.num < jout.den
    /\ stop_extra # {}
    /\ Len(Tokenize(jquery)) > Cardinality(QuerySet)

---------------------------------------------------------------------------
(* The title_norm of the index against _normalize of the view               *)

\* RERANK_LANGUAGE: not set, "auto", "AUTO", "", "es", "es-ES", "en_US"
LangRerankValues ==
    {<<>>, <<Auto>>, <<<<65, 85, 84, 79>>>>, <<<<>>>>, <<Es>>,
     <<<<101, 115, 45, 69, 83>>>>, <<<<101, 110, 95, 85, 83>>>>}

\* RANKED_SEARCH_LANGUAGE: not set, "", "es"
LangRankedValues == {<<>>, <<<<>>>>, <<Es>>}

\* HAYSTACK_LANGUAGE: not set, "es_ES"
LangHaystackValues == {<<>>, <<<<101, 115, 95, 69, 83>>>>}

\* LANGUAGE_CODE: not set, "en-us", "ES", "-"
LangCodeValues ==
    {<<>>, <<<<101, 110, 45, 117, 115>>>>, <<<<69, 83>>>>, <<<<45>>>>}

\* the titles indexed: "", "ns", "Ñs"
LangTitles == {<<>>, <<110, 115>>, <<209, 115>>}

\* the base language prepare_fields and search get from get_base_language()
IndexLanguage ==
    LangName(GetBaseLanguage(ranked_search_language, haystack_language,
                             language_code))

\* prepared_data["title_norm"] = normalize_text(title, base)
PrepareTitleNorm(title) == NormalizeText(title, profile, keep_enye, IndexLanguage)

LangInit ==
    /\ lphase = "input"
    /\ ltitle \in LangTitles
    /\ ltitle_norm = <<>>
    /\ lview_norm = <<>>
    /\ rerank_language \in LangRerankValues
    /\ ranked_search_language \in LangRankedValues
    /\ haystack_language \in LangHaystackValues
    /\ language_code \in LangCodeValues
    /\ stopwords_add = {}
    /\ stopwords_remove = {}
    /\ norm_cache = EmptyCache
    /\ tokens_cache = EmptyCache
    /\ item_keys = <<>>
    /\ profile = ProcessProfile
    /\ keep_enye = "None"
    /\ base_lang = IndexLanguage
    /\ NormOff
    /\ FormOff
    /\ SchemaOff
    /\ RankOff
    /\ JaccardOff

\* CMSTitleRankedIndex.prepare_fields: the title_norm of the title
PrepareFields ==
    /\ lphase = "input"
    /\ lphase' = "indexed"
    /\ ltitle_norm' = PrepareTitleNorm(ltitle)
    /\ UNCHANGED <<ltitle, lview_norm>>
    /\ UNCHANGED <<nvars, fvars, svars, rvars, pvars, jvars>>

\* _normalize(title) as key(res) calls it for a hit with the indexed title
ViewNormalizeCall ==
    /\ lphase = "indexed"
    /\ lphase' = "done"
    /\ LET n == NormalizeCached(norm_cache, ltitle)
       IN /\ lview_norm' = n.val
          /\ norm_cache' = n.ncache
    /\ UNCHANGED <<ltitle, ltitle_norm>>
    /\ UNCHANGED <<rerank_language, ranked_search_language, haystack_language,
                   language_code, stopwords_add, stopwords_remove, tokens_cache,
                   item_keys>>
    /\ UNCHANGED <<nvars, fvars, svars, rvars, jvars>>

LangNext == PrepareFields \/ ViewNormalizeCall

SpecLang == LangInit /\ [][LangNext]_vars

\* C14: whatever RERANK_LANGUAGE, RANKED_SEARCH_LANGUAGE, HAYSTACK_LANGUAGE
\* and LANGUAGE_CODE are, the normalized form the reranker computes for a
\* title is the title_norm value prepare_fields indexed for it under the
\* same settings.
C14_ViewMatchesIndex ==
    lphase = "done" => lview_norm = ltitle_norm

=============================================================================
